---- MODULE Spec2Model ----
(***************************************************************************)
(* A model of the multi-modal classifier of model/framework_model.py and   *)
(* of the attention pooling of model/model_03/model.py.                    *)
(*                                                                         *)
(* Tensors are modelled by their shape and by a provenance trail `val`     *)
(* (which input they come from and which encoder instance produced them).  *)
(* A value is a record [kind, shape, val]: kind "tensor", kind "None" for  *)
(* Python's None, or the name of the exception an operation raised.        *)
(***************************************************************************)
EXTENDS Integers, Sequences, FiniteSets, TLC

VARIABLES model, call, attn, attnCall

vars == <<model, call, attn, attnCall>>

----------------------------------------------------------------------------
(* Bounds of the model *)

MaxBatch == 2
MaxDocs == 2
MaxExtraLen == 1
MaxSteps == 3
SeqLen == 4

(* Program constants *)

NumLags == 10
NumCategories == 9
NontextDim == 19
BertHidden == 768
SingleCorpusDim == 32
EpsNano == 1

----------------------------------------------------------------------------
(* Values *)

Tensor(shape, val) == [kind |-> "tensor", shape |-> shape, val |-> val]

None == [kind |-> "None", shape |-> <<>>, val |-> <<>>]

Raise(e) == [kind |-> e, shape |-> <<>>, val |-> <<>>]

IsT(x) == x.kind = "tensor"

IsErr(x) == x.kind \notin {"tensor", "None"}

(* The value an operation yields when its operand is not a tensor: an      *)
(* exception already raised propagates, None is a TypeError.               *)
Bad(x) == IF x.kind = "None" THEN Raise("TypeError") ELSE x

Last(s) == s[Len(s)]

RECURSIVE Prod(_)
Prod(s) == IF s = <<>> THEN 1 ELSE Head(s) * Prod(Tail(s))

Min(a, b) == IF a < b THEN a ELSE b

Max(a, b) == IF a > b THEN a ELSE b

----------------------------------------------------------------------------
(* torch operations, on shapes *)

(* nn.Linear(in_features, out_features) applied to x *)
Linear(in_features, out_features, x) ==
    IF ~IsT(x) THEN Bad(x)
    ELSE IF Len(x.shape) = 0 \/ Last(x.shape) # in_features THEN Raise("RuntimeError")
    ELSE Tensor(SubSeq(x.shape, 1, Len(x.shape) - 1) \o <<out_features>>, x.val)

(* x[:, :n] of a 2-D tensor *)
SliceTo(x, n) ==
    IF ~IsT(x) THEN Bad(x)
    ELSE Tensor(<<x.shape[1], Min(n, x.shape[2])>>, x.val)

(* x[:, n:] of a 2-D tensor *)
SliceFrom(x, n) ==
    IF ~IsT(x) THEN Bad(x)
    ELSE Tensor(<<x.shape[1], Max(x.shape[2] - n, 0)>>, x.val)

(* x.unsqueeze(-1) *)
UnsqueezeLast(x) ==
    IF ~IsT(x) THEN Bad(x) ELSE Tensor(x.shape \o <<1>>, x.val)

(* x.unsqueeze(1) *)
Unsqueeze1(x) ==
    IF ~IsT(x) THEN Bad(x)
    ELSE Tensor(<<x.shape[1], 1>> \o SubSeq(x.shape, 2, Len(x.shape)), x.val)

(* x.repeat(1, 1, n) of a 3-D tensor *)
Repeat3(x, n) ==
    IF ~IsT(x) THEN Bad(x)
    ELSE Tensor(<<x.shape[1], x.shape[2], x.shape[3] * n>>, x.val)

(* torch.cat([a, b], dim=1): every dimension but the second must agree *)
CatDim1(a, b) ==
    IF ~IsT(a) THEN Bad(a)
    ELSE IF ~IsT(b) THEN Bad(b)
    ELSE IF Len(a.shape) # Len(b.shape) \/ Len(a.shape) < 2
            \/ \E i \in 1..Len(a.shape) : i # 2 /\ a.shape[i] # b.shape[i]
         THEN Raise("RuntimeError")
    ELSE Tensor([a.shape EXCEPT ![2] = a.shape[2] + b.shape[2]], a.val \o b.val)

(* torch.max(x, dim=1)[0] of a 3-D tensor *)
MaxDim1(x) ==
    IF ~IsT(x) THEN Bad(x)
    ELSE IF x.shape[2] = 0 THEN Raise("RuntimeError")
    ELSE Tensor(<<x.shape[1], x.shape[3]>>, x.val)

(* x.view(n, -1) *)
ViewRows(x, n) ==
    IF ~IsT(x) THEN Bad(x)
    ELSE IF n = 0 \/ Prod(x.shape) % n # 0 THEN Raise("RuntimeError")
    ELSE Tensor(<<n, Prod(x.shape) \div n>>, x.val)

(* x.view(a, b, -1) *)
ViewRows2(x, a, b) ==
    IF ~IsT(x) THEN Bad(x)
    ELSE IF a * b = 0 \/ Prod(x.shape) % (a * b) # 0 THEN Raise("RuntimeError")
    ELSE Tensor(<<a, b, Prod(x.shape) \div (a * b)>>, x.val)

(* x.view(-1) *)
ViewFlat(x) ==
    IF ~IsT(x) THEN Bad(x) ELSE Tensor(<<Prod(x.shape)>>, x.val)

----------------------------------------------------------------------------
(* model_03: the single-source corpus encoder *)

(* DocumentEncoder.forward: the transformer's last_hidden_state has shape   *)
(* (samples, steps, 768); the first step is kept.                          *)
DocumentEncoderForward(x, attention_mask) ==
    IF ~IsT(x) THEN Bad(x)
    ELSE IF ~IsT(attention_mask) THEN Bad(attention_mask)
    ELSE IF Len(x.shape) # 2 \/ attention_mask.shape # x.shape THEN Raise("RuntimeError")
    ELSE Tensor(<<x.shape[1], BertHidden>>, x.val)

(* model_03 CorpusEncoder.forward, of the instance named inst *)
CorpusEncoder03Forward(inst, x, attention_mask) ==
    IF ~IsT(x) THEN Bad(x)
    ELSE IF ~IsT(attention_mask) THEN Bad(attention_mask)
    ELSE
        LET batch_size == x.shape[1]
            nb_docs == x.shape[2]
            flat == ViewRows(x, batch_size * nb_docs)
            attention_mask_ == ViewRows(attention_mask, batch_size * nb_docs)
            docs == DocumentEncoderForward(flat, attention_mask_)
            perdoc == ViewRows2(docs, batch_size, nb_docs)
            pooled == MaxDim1(perdoc)
            out == Linear(BertHidden, SingleCorpusDim, pooled)
        IN  IF IsT(out) THEN Tensor(out.shape, <<inst>> \o out.val) ELSE out

----------------------------------------------------------------------------
(* framework_model: CorpusEncoder *)

Methods == {"None", "bow", "max_pooling", "hierbert", "model_01", "model_02", "model_03"}

StubMethods == {"bow", "max_pooling", "hierbert"}

(* The attributes __init__ sets; `defined` names the ones that exist.      *)
CEObject(method, separate, defined, dim, enc, ecb, fed) ==
    [method |-> method, separate |-> separate, defined |-> defined,
     corpus_emb_dim |-> dim, encoder |-> enc, encoder_ecb |-> ecb, encoder_fed |-> fed]

(* 2*self.encoder_ecb.corpus_emb_dim *)
SeparateDimSingle(d) == d

SeparateDim(d) == 2 * d

(* the model_03 branch of __init__ *)
Model03Init(separate) ==
    IF ~separate
    THEN CEObject("model_03", separate,
                  {"encoder", "encoder_ecb", "encoder_fed", "corpus_emb_dim"},
                  SingleCorpusDim, "CorpusEncoder03", "None", "None")
    ELSE CEObject("model_03", separate,
                  {"encoder", "encoder_ecb", "encoder_fed", "corpus_emb_dim"},
                  SeparateDim(SingleCorpusDim), "None", "CorpusEncoder03", "CorpusEncoder03")

StubInitAsModel03(method, separate) ==
    [Model03Init(separate) EXCEPT !.method = method]

(* the bow, max_pooling and hierbert branches of __init__ *)
StubInit(method, separate) ==
    CEObject(method, separate, {"corpus_emb_dim"},
             1 * (1 + (IF separate THEN 1 ELSE 0)), "None", "None", "None")

NoneInitAsStub(separate) == StubInit("None", separate)

(* the method is None branch of __init__ *)
NoneInit(separate) ==
    CEObject("None", separate, {"corpus_emb_dim"}, 0, "None", "None", "None")

(* CorpusEncoder.__init__: model_01 and model_02 match no branch *)
CorpusEncoderInit(method, separate) ==
    IF method \in StubMethods THEN StubInit(method, separate)
    ELSE IF method = "model_03" THEN Model03Init(separate)
    ELSE IF method = "None" THEN NoneInit(separate)
    ELSE CEObject(method, separate, {}, 0, "None", "None", "None")

(* A record of one call made during a forward pass *)
Called(callee, arg, arg2) == [callee |-> callee, arg |-> arg, arg2 |-> arg2]

Result(out, calls) == [out |-> out, calls |-> calls]

(* self.<attr>(x, m): the attribute lookup, then the call *)
CallEncoder(ce, attr, x, m) ==
    IF attr \notin ce.defined THEN Result(Raise("AttributeError"), <<>>)
    ELSE IF ce[attr] = "None" THEN Result(Raise("TypeError"), <<>>)
    ELSE Result(CorpusEncoder03Forward(attr, x, m), <<Called(attr, x, m)>>)

(* Python's t[0] and t[1] of an input tuple, as positions of a sequence *)
Ecb(t) == t[1]

FedSwapped(t) == t[1]

Fed(t) == t[2]

(* CorpusEncoder.forward; x and x_masks are tuples of 1 or 2 tensors *)
CorpusEncoderForward(ce, x, x_masks) ==
    IF ce.method = "None" THEN Result(None, <<>>)
    ELSE IF ce.separate THEN
        LET e == CallEncoder(ce, "encoder_ecb", Ecb(x), Ecb(x_masks))
        IN  IF ~IsT(e.out) THEN e
            ELSE IF "encoder_fed" \notin ce.defined
                 THEN Result(Raise("AttributeError"), e.calls)
            ELSE IF Len(x) < 2 \/ Len(x_masks) < 2
                 THEN Result(Raise("IndexError"), e.calls)
            ELSE
                LET f == CallEncoder(ce, "encoder_fed", Fed(x), Fed(x_masks))
                IN  IF ~IsT(f.out) THEN Result(f.out, e.calls \o f.calls)
                    ELSE Result(CatDim1(e.out, f.out), e.calls \o f.calls)
    ELSE CallEncoder(ce, "encoder", Ecb(x), Ecb(x_masks))

----------------------------------------------------------------------------
(* framework_model: NontextualNetwork *)

(* CNN1D(input_channels, output_dim, ...): consumes (batch, input_channels, *)
(* L) and yields (batch, L, output_dim).                                   *)
CNN1D(input_channels, output_dim, x) ==
    IF ~IsT(x) THEN Bad(x)
    ELSE IF Len(x.shape) # 3 \/ x.shape[2] # input_channels THEN Raise("RuntimeError")
    ELSE Tensor(<<x.shape[1], x.shape[3], output_dim>>, <<"cnn">> \o x.val)

NontextualNetworkInit(input_dim, input_channels, output_dim) ==
    [input_dim |-> input_dim, input_channels |-> input_channels, output_dim |-> output_dim]

(* x_ = x[:, :10] *)
TimeSeriesShort(x) == SliceTo(x, NumLags - 1)

TimeSeries(x) == SliceTo(x, NumLags)

(* category = x[:, 10:] *)
Category(x) == SliceFrom(x, NumLags)

(* torch.cat([cat_feat, x_.unsqueeze(1)], dim=1): the input of the cnn *)
StackChannels(nw, x) ==
    LET x_ == TimeSeries(x)
        category == Category(x)
        emb == Linear(NumCategories, nw.input_channels - 1, category)
        cat_feat == IF IsT(x_) THEN Repeat3(UnsqueezeLast(emb), x_.shape[2]) ELSE Bad(x_)
    IN  CatDim1(cat_feat, Unsqueeze1(x_))

(* NontextualNetwork.forward *)
NontextualNetworkForward(nw, x) ==
    LET stacked == StackChannels(nw, x)
    IN  IF ~IsT(stacked) THEN Result(stacked, <<>>)
        ELSE Result(CNN1D(nw.input_channels, nw.output_dim, stacked),
                    <<Called("cnn", stacked, None)>>)

----------------------------------------------------------------------------
(* framework_model: ClassificationHead *)

ClassificationHeadInit(corpus_emb_dim, nontext_dim) ==
    [corpus_emb_dim |-> corpus_emb_dim, nontext_dim |-> nontext_dim]

(* SimpleMLP / CompactMLP (nontext_dim, ..., out_features=1): maps the      *)
(* last axis, of width nontext_dim, to width 1.                            *)
MLP(in_features, x) == Linear(in_features, 1, x)

(* VectorAttention(nontext_dim): a query vector (batch, dim) attends over   *)
(* a sequence (batch, L, dim) and yields one vector (batch, dim).          *)
VectorAttention(dim, sequence, vector) ==
    IF ~IsT(sequence) THEN Bad(sequence)
    ELSE IF ~IsT(vector) THEN Bad(vector)
    ELSE IF Len(sequence.shape) # 3 \/ Len(vector.shape) # 2
            \/ sequence.shape[1] # vector.shape[1]
            \/ sequence.shape[3] # dim \/ vector.shape[2] # dim
         THEN Raise("RuntimeError")
    ELSE Tensor(<<sequence.shape[1], dim>>, <<"fused">> \o vector.val \o sequence.val)

(* x_corpus is None or self.corpus_emb_dim == 0 *)
CorpusAbsent(h, x_corpus) == x_corpus.kind = "None" \/ h.corpus_emb_dim = 0

(* x_nontext is None or self.nontext_dim == 0 *)
NontextAbsent(h, x_nontext) == x_nontext.kind = "None" \/ h.nontext_dim = 0

(* the condition of the ValueError *)
BothAbsent(h, x_corpus, x_nontext) ==
    CorpusAbsent(h, x_corpus) /\ NontextAbsent(h, x_nontext)

(* the input of the MLP: the present modality, or the fusion of both *)
HeadInput(h, x_corpus, x_nontext) ==
    IF CorpusAbsent(h, x_corpus) THEN Result(x_nontext, <<>>)
    ELSE IF NontextAbsent(h, x_nontext) THEN Result(x_corpus, <<>>)
    ELSE
        LET projected == Linear(h.corpus_emb_dim, h.nontext_dim, x_corpus)
        IN  IF ~IsT(projected) THEN Result(projected, <<Called("proj", x_corpus, None)>>)
            ELSE Result(VectorAttention(h.nontext_dim, x_nontext, projected),
                        <<Called("proj", x_corpus, None),
                          Called("vector_attention", x_nontext, None)>>)

(* ClassificationHead.forward *)
ClassificationHeadForward(h, x_corpus, x_nontext) ==
    IF BothAbsent(h, x_corpus, x_nontext) THEN Result(Raise("ValueError"), <<>>)
    ELSE
        LET inp == HeadInput(h, x_corpus, x_nontext)
        IN  IF ~IsT(inp.out) THEN inp
            ELSE Result(ViewFlat(MLP(h.nontext_dim, inp.out)),
                        inp.calls \o <<Called("mlp", inp.out, None)>>)

----------------------------------------------------------------------------
(* framework_model: MyModel *)

(* MyModel.__init__: reading corpus_encoder.corpus_emb_dim fails when the   *)
(* encoder's __init__ did not set it; the head is built from               *)
(* kwargs_classification alone.                                            *)
MyModelInit(method, separate, kwargs_nontext, kwargs_classification) ==
    LET ce == CorpusEncoderInit(method, separate)
        nw == NontextualNetworkInit(kwargs_nontext.input_dim,
                                    kwargs_nontext.input_channels,
                                    kwargs_nontext.output_dim)
    IN  [status |-> IF "corpus_emb_dim" \in ce.defined THEN "constructed"
                    ELSE "AttributeError",
         method |-> method,
         nontext_network |-> nw,
         nontext_dim |-> nw.output_dim,
         corpus_encoder |-> ce,
         classifier |-> ClassificationHeadInit(kwargs_classification.corpus_emb_dim,
                                               kwargs_classification.nontext_dim)]

(* MyModel.forward *)
MyModelForward(m, x_text, x_masks, x_nontext) ==
    LET n == NontextualNetworkForward(m.nontext_network, x_nontext)
        ncalls == <<Called("nontext_network", x_nontext, None)>> \o n.calls
    IN  IF ~IsT(n.out) THEN Result(n.out, ncalls)
        ELSE
            LET c == IF m.method = "None" THEN Result(None, <<>>)
                     ELSE LET r == CorpusEncoderForward(m.corpus_encoder, x_text, x_masks)
                          IN  Result(r.out,
                                     <<Called("corpus_encoder", None, None)>> \o r.calls)
            IN  IF IsErr(c.out) THEN Result(c.out, ncalls \o c.calls)
                ELSE
                    LET h == ClassificationHeadForward(m.classifier, c.out, n.out)
                    IN  Result(h.out,
                               ncalls \o c.calls
                               \o <<Called("classifier", c.out, n.out)>> \o h.calls)

----------------------------------------------------------------------------
(* The inputs callers supply *)

DocIds == {"a", "b"}

TextTensor(b, m, id) == Tensor(<<b, m, SeqLen>>, <<id>>)

MaskTensor(b, m, id) == Tensor(<<b, m, SeqLen>>, <<"mask", id>>)

(* x_text and x_masks: parallel tuples of 1 or 2 tensors of one batch size *)
TextInputs(b) ==
    {[x |-> <<TextTensor(b, m1, i1)>>, masks |-> <<MaskTensor(b, m1, i1)>>] :
        m1 \in 1..MaxDocs, i1 \in DocIds}
    \cup
    {[x |-> <<TextTensor(b, m1, i1), TextTensor(b, m2, i2)>>,
      masks |-> <<MaskTensor(b, m1, i1), MaskTensor(b, m2, i2)>>] :
        m1 \in 1..MaxDocs, m2 \in 1..MaxDocs, i1 \in DocIds, i2 \in DocIds}

(* x_nontext: a flat vector per sample; the reference length is 19 *)
NontextLengths == (NontextDim - 1)..(NontextDim + MaxExtraLen)

NontextInput(b, len) == Tensor(<<b, len>>, <<"x_nontext">>)

HeadDims == {0, NontextDim, SingleCorpusDim, 2 * SingleCorpusDim}

(* what a caller may hand ClassificationHead.forward directly *)
HeadCorpusInputs(b) ==
    {None} \cup {Tensor(<<b, w>>, <<"x_corpus">>) : w \in HeadDims \ {0}}

HeadNontextInputs(b) ==
    {None}
    \cup {Tensor(<<b, NumLags, w>>, <<"x_nontext">>) : w \in {NontextDim, SingleCorpusDim}}
    \cup {Tensor(<<b, w>>, <<"x_nontext">>) : w \in {NontextDim, SingleCorpusDim}}

KwargsNontext ==
    [input_dim : {NontextDim}, input_channels : {1, 16},
     output_dim : {NontextDim, SingleCorpusDim}]

KwargsClassification ==
    [corpus_emb_dim : {0, SingleCorpusDim, 2 * SingleCorpusDim},
     nontext_dim : {0, NontextDim, SingleCorpusDim}]

----------------------------------------------------------------------------
(* The state machine: a constructed MyModel and the last forward call *)

CallRecord(op, x_text, x_masks, x_corpus, x_nontext, r) ==
    [op |-> op, x_text |-> x_text, x_masks |-> x_masks, x_corpus |-> x_corpus,
     x_nontext |-> x_nontext, out |-> r.out, calls |-> r.calls]

NoCall == CallRecord("none", <<>>, <<>>, None, None, Result(None, <<>>))

NoAttn == [return_coefficients |-> FALSE, score |-> <<>>]

NoAttnCall == [op |-> "none", x |-> <<>>, mask |-> <<>>, masked |-> FALSE,
               a |-> <<>>, den |-> 0, weighted |-> 0, returned |-> 0]

Init ==
    /\ model \in {MyModelInit(method, separate, kn, kc) :
                    method \in Methods, separate \in BOOLEAN,
                    kn \in KwargsNontext, kc \in KwargsClassification}
    /\ call = NoCall
    /\ attn = NoAttn
    /\ attnCall = NoAttnCall

(* model(x_text, x_masks, x_nontext) *)
ForwardModel ==
    /\ model.status = "constructed"
    /\ call.op = "none"
    /\ \E b \in 1..MaxBatch, len \in NontextLengths : \E t \in TextInputs(b) :
          call' = CallRecord("MyModel.forward", t.x, t.masks, None, NontextInput(b, len),
                             MyModelForward(model, t.x, t.masks, NontextInput(b, len)))
    /\ UNCHANGED <<model, attn, attnCall>>

(* model.corpus_encoder(x, x_masks) *)
ForwardCorpusEncoder ==
    /\ model.status = "constructed"
    /\ call.op = "none"
    /\ \E b \in 1..MaxBatch : \E t \in TextInputs(b) :
          call' = CallRecord("CorpusEncoder.forward", t.x, t.masks, None, None,
                             CorpusEncoderForward(model.corpus_encoder, t.x, t.masks))
    /\ UNCHANGED <<model, attn, attnCall>>

(* model.nontext_network(x) *)
ForwardNontext ==
    /\ model.status = "constructed"
    /\ call.op = "none"
    /\ \E b \in 1..MaxBatch, len \in NontextLengths :
          call' = CallRecord("NontextualNetwork.forward", <<>>, <<>>, None,
                             NontextInput(b, len),
                             NontextualNetworkForward(model.nontext_network,
                                                      NontextInput(b, len)))
    /\ UNCHANGED <<model, attn, attnCall>>

(* model.classifier(x_corpus, x_nontext) *)
ForwardHead ==
    /\ model.status = "constructed"
    /\ call.op = "none"
    /\ \E b \in 1..MaxBatch : \E xc \in HeadCorpusInputs(b), xn \in HeadNontextInputs(b) :
          call' = CallRecord("ClassificationHead.forward", <<>>, <<>>, xc, xn,
                             ClassificationHeadForward(model.classifier, xc, xn))
    /\ UNCHANGED <<model, attn, attnCall>>

(* the caller drops the result: no state survives a forward call *)
Return ==
    /\ call.op # "none"
    /\ call' = NoCall
    /\ UNCHANGED <<model, attn, attnCall>>

Next == ForwardModel \/ ForwardCorpusEncoder \/ ForwardNontext \/ ForwardHead \/ Return

Spec == Init /\ [][Next]_vars

----------------------------------------------------------------------------
(* Properties of the framework *)

CallsTo(callees) == {i \in 1..Len(call.calls) : call.calls[i].callee \in callees}

EncoderAttrs == {"encoder", "encoder_ecb", "encoder_fed"}

HeadCall == call.op = "ClassificationHead.forward"

(* the tensors handed to the head have the widths the head declares *)
HeadWellShaped ==
    /\ (IsT(call.x_corpus) /\ model.classifier.corpus_emb_dim # 0)
          => call.x_corpus.shape[2] = model.classifier.corpus_emb_dim
    /\ (IsT(call.x_nontext) /\ model.classifier.nontext_dim # 0)
          => /\ Len(call.x_nontext.shape) = 3
             /\ call.x_nontext.shape[3] = model.classifier.nontext_dim

(* C1: ClassificationHead.forward raises, before the MLP is invoked,       *)
(* exactly when both modalities are absent; in every other combination it  *)
(* raises nothing and returns a result.                                    *)
C1_ErrorIffBothAbsent ==
    (HeadCall /\ HeadWellShaped) =>
        IF BothAbsent(model.classifier, call.x_corpus, call.x_nontext)
        THEN call.out.kind = "ValueError" /\ CallsTo({"mlp"}) = {}
        ELSE IsT(call.out)

ExactlyOneAbsent ==
    CorpusAbsent(model.classifier, call.x_corpus)
        # NontextAbsent(model.classifier, call.x_nontext)

PresentInput ==
    IF CorpusAbsent(model.classifier, call.x_corpus) THEN call.x_nontext ELSE call.x_corpus

(* C2: with exactly one modality absent the head hands the present input,  *)
(* unchanged, to the MLP and returns one value per sample, shape (batch,); *)
(* so does the orchestrator's call of a head with corpus_emb_dim = 0 and   *)
(* nontext_dim > 0 on the 10-step nontextual sequence.                     *)
C2_OneValuePerSample ==
    /\ (HeadCall /\ HeadWellShaped /\ ExactlyOneAbsent) =>
          /\ \E i \in CallsTo({"mlp"}) : call.calls[i].arg = PresentInput
          /\ IsT(call.out)
          /\ call.out.shape = <<PresentInput.shape[1]>>
    /\ (/\ call.op = "MyModel.forward"
        /\ model.method = "None"
        /\ model.classifier.corpus_emb_dim = 0
        /\ model.classifier.nontext_dim = model.nontext_network.output_dim
        /\ call.x_nontext.shape[2] = NumLags + NumCategories) =>
          /\ IsT(call.out)
          /\ call.out.shape = <<call.x_nontext.shape[1]>>

(* C3: after construction, for every method and either value of separate,  *)
(* the corpus encoder's corpus_emb_dim is defined and equals the           *)
(* corpus_emb_dim the classification head was constructed with.            *)
C3_HeadDimIsEncoderDim ==
    /\ model.status = "constructed"
    /\ "corpus_emb_dim" \in model.corpus_encoder.defined
    /\ model.corpus_encoder.corpus_emb_dim = model.classifier.corpus_emb_dim

(* C4: for model_03 the encoder exposes 2 x 32 when separate and 32 when   *)
(* not, and every embedding forward returns (to its caller or to the head) *)
(* has that width, whatever the document counts and the batch size.        *)
C4_WidthIsExposedDim ==
    model.method = "model_03" =>
        /\ model.status = "constructed"
        /\ model.corpus_encoder.corpus_emb_dim
              = (IF model.corpus_encoder.separate THEN 2 ELSE 1) * SingleCorpusDim
        /\ (call.op = "CorpusEncoder.forward" /\ IsT(call.out)) =>
              call.out.shape = <<call.x_text[1].shape[1], model.corpus_encoder.corpus_emb_dim>>
        /\ \A i \in CallsTo({"classifier"}) :
              /\ IsT(call.calls[i].arg)
              /\ call.calls[i].arg.shape
                    = <<call.x_text[1].shape[1], model.corpus_encoder.corpus_emb_dim>>

C4_Witness ==
    /\ model.method = "model_03"
    /\ model.corpus_encoder.separate
    /\ call.op = "CorpusEncoder.forward"
    /\ IsT(call.out)
    /\ Len(call.x_text) = 2
    /\ call.x_text[1].shape[1] = MaxBatch
    /\ call.x_text[1].shape[2] = MaxDocs
    /\ call.x_text[2].shape[2] = 1
    /\ call.out.shape = <<MaxBatch, 2 * SingleCorpusDim>>

(* C5: in separate mode (x[0], x_masks[0]) reaches the ECB encoder only    *)
(* and (x[1], x_masks[1]) the FED encoder only, the shared encoder is not  *)
(* used, and the embedding returned is the ECB embedding of x[0] followed  *)
(* by the FED embedding of x[1].                                           *)
C5_EcbThenFed ==
    (call.op \in {"CorpusEncoder.forward", "MyModel.forward"}
     /\ model.corpus_encoder.separate) =>
        /\ CallsTo({"encoder"}) = {}
        /\ \A i \in CallsTo({"encoder_ecb"}) :
              /\ call.calls[i].arg = call.x_text[1]
              /\ call.calls[i].arg2 = call.x_masks[1]
        /\ \A i \in CallsTo({"encoder_fed"}) :
              /\ call.calls[i].arg = call.x_text[2]
              /\ call.calls[i].arg2 = call.x_masks[2]
        /\ (call.op = "CorpusEncoder.forward" /\ IsT(call.out)) =>
              /\ Len(call.calls) = 2
              /\ call.calls[1].callee = "encoder_ecb"
              /\ call.calls[2].callee = "encoder_fed"
              /\ call.out.val = <<"encoder_ecb">> \o call.x_text[1].val
                                \o <<"encoder_fed">> \o call.x_text[2].val
        /\ \A i \in CallsTo({"classifier"}) :
              IsT(call.calls[i].arg) =>
                  call.calls[i].arg.val = <<"encoder_ecb">> \o call.x_text[1].val
                                          \o <<"encoder_fed">> \o call.x_text[2].val

C5_Witness ==
    /\ model.corpus_encoder.separate
    /\ call.op = "CorpusEncoder.forward"
    /\ IsT(call.out)
    /\ call.x_text[1].val = <<"b">>
    /\ call.x_text[2].val = <<"a">>
    /\ call.out.val = <<"encoder_ecb", "b", "encoder_fed", "a">>

NontextCall == call.op = "NontextualNetwork.forward"

(* the 19 entries of the reference configuration: 10 lags and 9 flags *)
ReferenceLength == NumLags + NumCategories

(* C6 as stated: with method None the encoder exposes corpus_emb_dim = 0,  *)
(* its forward returns None and invokes no encoder, for either value of    *)
(* separate, and the orchestrator's forward runs the nontextual network,   *)
(* hands the head an absent corpus embedding and raises no error (for an   *)
(* input of the reference length and a head without dimension mismatch).   *)
C6_NoneNeverFails ==
    model.method = "None" =>
        /\ model.corpus_encoder.corpus_emb_dim = 0
        /\ call.op = "CorpusEncoder.forward" =>
              call.out = None /\ call.calls = <<>>
        /\ (/\ call.op = "MyModel.forward"
            /\ call.x_nontext.shape[2] = ReferenceLength
            /\ model.classifier.nontext_dim \in {0, model.nontext_network.output_dim}) =>
              /\ CallsTo({"nontext_network"}) # {}
              /\ CallsTo(EncoderAttrs) = {}
              /\ \E i \in CallsTo({"classifier"}) : call.calls[i].arg = None
              /\ IsT(call.out)

(* the nontextual side of the configuration is consistent and the input    *)
(* has the reference length                                                *)
NontextConfigured ==
    /\ model.classifier.nontext_dim # 0
    /\ model.classifier.nontext_dim = model.nontext_network.output_dim
    /\ call.x_nontext.shape[2] = ReferenceLength

(* C6, amended: the same, where the orchestrator's forward raises no error *)
(* provided the head's nontext_dim is nonzero and equals the nontextual    *)
(* network's output_dim and the input vector has 19 entries; with the      *)
(* head's nontext_dim = 0 the head raises the both-absent ValueError.      *)
C6_NoneIsFirstClass ==
    model.method = "None" =>
        /\ model.status = "constructed"
        /\ model.corpus_encoder.corpus_emb_dim = 0
        /\ call.op = "CorpusEncoder.forward" =>
              call.out = None /\ call.calls = <<>>
        /\ call.op = "MyModel.forward" =>
              /\ CallsTo({"nontext_network"}) # {}
              /\ CallsTo(EncoderAttrs \cup {"corpus_encoder"}) = {}
              /\ \A i \in CallsTo({"classifier"}) : call.calls[i].arg = None
              /\ NontextConfigured =>
                    /\ CallsTo({"classifier"}) # {}
                    /\ IsT(call.out)
              /\ (model.classifier.nontext_dim = 0
                  /\ call.x_nontext.shape[2] = ReferenceLength) =>
                    call.out.kind = "ValueError"

C6_Witness ==
    /\ model.method = "None"
    /\ model.corpus_encoder.separate
    /\ call.op = "MyModel.forward"
    /\ NontextConfigured
    /\ model.classifier.corpus_emb_dim # 0
    /\ Len(call.x_text) = 2
    /\ \E i \in CallsTo({"classifier"}) : call.calls[i].arg = None
    /\ IsT(call.out)

(* C7: for bow, max_pooling and hierbert, and either value of separate, a  *)
(* forward call of the corpus encoder invokes no encoder and returns no    *)
(* embedding (it ends in an AttributeError), and through the orchestrator  *)
(* no embedding reaches the head.                                          *)
C7_StubsEncodeNothing ==
    model.method \in StubMethods =>
        /\ model.status = "constructed"
        /\ call.op = "CorpusEncoder.forward" =>
              /\ call.calls = <<>>
              /\ ~IsT(call.out)
              /\ call.out.kind = "AttributeError"
        /\ call.op = "MyModel.forward" =>
              /\ CallsTo(EncoderAttrs) = {}
              /\ CallsTo({"classifier"}) = {}
              /\ ~IsT(call.out)

C7_Witness ==
    /\ model.method = "hierbert"
    /\ ~model.corpus_encoder.separate
    /\ call.op = "CorpusEncoder.forward"
    /\ Len(call.x_text) = 2
    /\ call.out.kind = "AttributeError"

----------------------------------------------------------------------------
(* model_03: AttentionWithContext, one sample of one feature per step.     *)
(* Quantities are fixed-point, in units of eps = 1e-9; a coefficient is    *)
(* the fraction a[i] / den.                                                *)

FeatureVals == {-1, 0, 1}

Scores == {-20, -7, -6, -1}

(* torch.exp at the scores -1 .. -21, in units of 1e-9 *)
ExpTable ==
    <<367879441, 135335283, 49787068, 18315639, 6737947, 2478752, 911882,
      335463, 123410, 45400, 16702, 6144, 2260, 832, 306, 113, 41, 15, 6, 2, 1>>

Exp(ait) == ExpTable[-ait]

RECURSIVE SumSeq(_)
SumSeq(s) == IF s = <<>> THEN 0 ELSE Head(s) + SumSeq(Tail(s))

(* __init__: score stands for the learned map x |-> u(tanh(W x)) *)
AttentionInit(return_coefficients, score) ==
    [return_coefficients |-> return_coefficients, score |-> score]

(* ait = self.u(self.tanh(self.W(x))) *)
Ait(at, x) == [i \in 1..Len(x) |-> at.score[x[i]]]

ApplyMaskIgnored(a, mask) == a

(* a = a*mask.float() *)
ApplyMask(a, mask) == [i \in 1..Len(a) |-> a[i] * mask[i]]

DenominatorNoEps(a) == SumSeq(a)

(* torch.sum(a, axis=1, keepdim=True) + eps *)
Denominator(a) == SumSeq(a) + EpsNano

(* AttentionWithContext.forward; masked is `mask is not None` *)
AttentionForward(at, x, masked, mask) ==
    LET ait == Ait(at, x)
        e == [i \in 1..Len(x) |-> Exp(ait[i])]
        a == IF masked THEN ApplyMask(e, mask) ELSE e
    IN  [op |-> "AttentionWithContext.forward", x |-> x, mask |-> mask, masked |-> masked,
         a |-> a, den |-> Denominator(a),
         weighted |-> SumSeq([i \in 1..Len(x) |-> a[i] * x[i]]),
         returned |-> IF at.return_coefficients THEN 2 ELSE 1]

NoModel == [status |-> "unused"]

SeqsOf(S, n) == [1..n -> S]

InitAttn ==
    /\ model = NoModel
    /\ call = NoCall
    /\ attn \in {AttentionInit(rc, sc) : rc \in BOOLEAN, sc \in [FeatureVals -> Scores]}
    /\ attnCall = NoAttnCall

(* attention(x, mask) and attention(x) *)
ForwardAttention ==
    /\ attnCall.op = "none"
    /\ \E n \in 1..MaxSteps : \E x \in SeqsOf(FeatureVals, n) :
          \/ \E mask \in SeqsOf({0, 1}, n) :
                attnCall' = AttentionForward(attn, x, TRUE, mask)
          \/ attnCall' = AttentionForward(attn, x, FALSE, <<>>)
    /\ UNCHANGED <<model, call, attn>>

ReturnAttention ==
    /\ attnCall.op # "none"
    /\ attnCall' = NoAttnCall
    /\ UNCHANGED <<model, call, attn>>

NextAttn == ForwardAttention \/ ReturnAttention

SpecAttn == InitAttn /\ [][NextAttn]_vars

----------------------------------------------------------------------------
(* Properties of the attention pooling *)

AttnCalled == attnCall.op = "AttentionWithContext.forward"

Steps == 1..Len(attnCall.x)

SomeValid == ~attnCall.masked \/ \E i \in Steps : attnCall.mask[i] = 1

FullyMasked == attnCall.masked /\ \A i \in Steps : attnCall.mask[i] = 0

(* |1 - sum(a) / den| <= 1e-6 *)
SumsToOne ==
    /\ attnCall.den > 0
    /\ SumSeq(attnCall.a) <= attnCall.den
    /\ attnCall.den - SumSeq(attnCall.a) <= attnCall.den \div 1000000

CoefficientsSound ==
    /\ attnCall.den > 0
    /\ \A i \in Steps : attnCall.a[i] >= 0
    /\ \A i \in Steps : (attnCall.masked /\ attnCall.mask[i] = 0) => attnCall.a[i] = 0

(* C8 as stated: with at least one valid step (or no mask) the             *)
(* coefficients are non-negative, zero at the masked-out steps, and sum to *)
(* 1 within 1e-6.                                                          *)
C8_SumIsOne ==
    (AttnCalled /\ SomeValid) => (CoefficientsSound /\ SumsToOne)

(* C8, amended: with at least one valid step (or no mask) the coefficients *)
(* are non-negative, zero at the masked-out steps, and sum to S / (S + eps)*)
(* < 1, S being the sum of the exponentiated scores of the valid steps;    *)
(* the sum is within 1e-6 of 1 exactly when S >= 999999 eps (about 1e-3).  *)
C8_SumIsOneForLargeScores ==
    (AttnCalled /\ SomeValid) =>
        /\ CoefficientsSound
        /\ SumSeq(attnCall.a) > 0
        /\ attnCall.den = SumSeq(attnCall.a) + EpsNano
        /\ SumSeq(attnCall.a)
              = SumSeq([i \in Steps |->
                          IF attnCall.masked /\ attnCall.mask[i] = 0 THEN 0
                          ELSE Exp(attn.score[attnCall.x[i]])])
        /\ SumsToOne <=> SumSeq(attnCall.a) >= 999999 * EpsNano

C8_Witness ==
    /\ AttnCalled
    /\ attnCall.masked
    /\ Len(attnCall.x) = MaxSteps
    /\ attnCall.mask[1] = 0
    /\ \E i \in Steps : attnCall.mask[i] = 1
    /\ attnCall.a[1] = 0
    /\ SumsToOne

(* C9: when every step of a sample is masked invalid the denominator is    *)
(* the stabilizing constant alone (no division by zero), every coefficient *)
(* is zero and the pooled output is the zero vector.                       *)
C9_FullyMaskedIsZero ==
    (AttnCalled /\ FullyMasked) =>
        /\ attnCall.den = EpsNano
        /\ attnCall.den > 0
        /\ \A i \in Steps : attnCall.a[i] = 0
        /\ attnCall.weighted = 0

C9_Witness ==
    /\ AttnCalled
    /\ FullyMasked
    /\ Len(attnCall.x) = MaxSteps
    /\ \A i \in Steps : attnCall.x[i] # 0
    /\ attnCall.den = EpsNano
    /\ attnCall.weighted = 0

====
